---------------------------- MODULE Spec2Model ----------------------------
(***************************************************************************)
(* A model of three adapters of Azure Data Studio:                         *)
(*                                                                         *)
(*   - QueryHistoryProvider (extensions/query-history): the in-memory      *)
(*     history list, its capture and persistence flags, the asynchronous   *)
(*     requests it sends to the secret storage, to the connection service  *)
(*     and to the workspace configuration;                                 *)
(*   - DacFxTestService: the stub of the DacFx service and the result      *)
(*     records it hands out;                                               *)
(*   - StaticRecommendations: the recommendation list built from the       *)
(*     product configuration.                                              *)
(*                                                                         *)
(* The extension host runs one callback at a time, so every action below   *)
(* is one synchronous run of a handler: from its start, or from the        *)
(* resumption after an await, to its next await or its end.  An awaited    *)
(* request is answered by the host outside the provider; the provider      *)
(* does not sequence its requests, so requests pending at the same time    *)
(* are served, and their answers delivered, in any order.                  *)
(***************************************************************************)
EXTENDS Integers, Sequences, FiniteSets, Bags, TLC

(***************************************************************************)
(* Bounds of the model.                                                    *)
(***************************************************************************)
\* operations started in one run: captured query events, clearAll, deleteItem,
\* setCaptureEnabled and edits of the settings
MaxOps == 2
\* calls made on the DacFx stub in one run
MaxCalls == 3
\* length of the product's recommendedExtensions list
MaxRecommended == 3

VARIABLES
    \* ---- QueryHistoryProvider
    items,              \* _queryHistoryItems, front first
    captureEnabled,     \* _captureEnabled
    persistHistory,     \* _persistHistory
    cfgCapture,         \* workspace configuration: queryHistory.captureEnabled
    cfgPersist,         \* workspace configuration: queryHistory.persistHistory
    stored,             \* the secret stored under STORAGE_KEY
    getReq,             \* the constructor's secrets.get
    reqs,               \* writes sent to the storage and not yet answered
    lookups,            \* captures waiting for azdata.connection.getConnection
    cfgWrites,          \* configuration updates of setCaptureEnabled not yet applied
    fired,              \* the step taken last fired _onDidChangeTreeData
    clock,              \* the wall clock: the latest time read by new Date()
    nEvents,            \* query events taken for capture so far
    nOps,               \* operations that have started
    failed,             \* history: a storage request has failed
    accepted,           \* history: events received as 'queryStop', with query info, capture enabled
    stored0,            \* history: the secret found at startup
    last,               \* history: the step taken last
    \* ---- DacFxTestService
    dacfxResult,        \* the stub's shared result record
    returned,           \* the results handed to callers, oldest first
    \* ---- StaticRecommendations
    recommendedExtensions,  \* productService.recommendedExtensions
    recommendations,        \* _recommendations
    recPc,                  \* "fields" before the constructor body, "constructed" after
    activated,              \* doActivate has run
    lastRead                \* what the recommendations getter returned last

qhVars == <<items, captureEnabled, persistHistory, cfgCapture, cfgPersist, stored,
            getReq, reqs, lookups, cfgWrites, fired, clock, nEvents, nOps, failed,
            accepted, stored0, last>>
dacVars == <<dacfxResult, returned>>
recVars == <<recommendedExtensions, recommendations, recPc, activated, lastRead>>
vars == <<qhVars, dacVars, recVars>>

(***************************************************************************)
(*                         QueryHistoryProvider                            *)
(***************************************************************************)

\* secrets.get answers undefined when nothing is stored
NoValue == [has |-> FALSE, list |-> <<>>]
Value(l) == [has |-> TRUE, list |-> l]

\* An item made by a capture holds a Date; q is the arrival number of its event.
NewItem(q, ts) == [q |-> q, ts |-> ts, kind |-> "Date"]

\* JSON.stringify writes a Date as its ISO string.
Stringify(l) == [i \in 1..Len(l) |-> [q |-> l[i].q, ts |-> l[i].ts, kind |-> "String"]]

\* JSON.parse gives back what the text holds: the timestamp stays a string.
Parse(l) == l

\* if (value): undefined and the empty string are falsy; '[]' is not.
Truthy(v) == v.has

\* items of a previous session, as JSON.stringify left them
OldItem(n) == [q |-> 0 - n, ts |-> 0 - n, kind |-> "String"]
StartupSecrets == {NoValue, Value(<<>>), Value(<<OldItem(1), OldItem(2)>>)}

\* vscode.workspace.textDocuments, and the documents query events may name
OpenDocuments == {"doc1"}
EventDocuments == {"doc1", "doc2"}
EventTypes == {"queryStart", "queryStop"}

\* a write sent to the secret storage, and the operation awaiting its answer
Request(kind, val, owner) == [kind |-> kind, val |-> val, owner |-> owner]

Step(op, owner, ok) == [op |-> op, owner |-> owner, ok |-> ok]
OtherStep == Step("other", "none", TRUE)

\* storeHistory: the request it sends, if any
StoreHistory(persist, list, owner) ==
    IF persist THEN SetToBag({Request("store", Value(Stringify(list)), owner)}) ELSE EmptyBag

\* updateConfigurationValues up to its await: the request it sends
UpdateConfigurationRequest(persist, list) ==
    IF ~persist THEN SetToBag({Request("delete", NoValue, "config")})
    ELSE StoreHistory(persist, list, "config")

\* The constructor: secrets.get is sent, the listeners are registered and
\* updateConfigurationValues runs up to its await.
QHInit ==
    /\ stored0 \in StartupSecrets
    /\ stored = stored0
    /\ cfgCapture \in BOOLEAN
    /\ cfgPersist \in BOOLEAN
    /\ items = <<>>
    /\ captureEnabled = cfgCapture
    /\ persistHistory = cfgPersist
    /\ getReq = [phase |-> "sent", ok |-> TRUE, res |-> NoValue]
    /\ reqs = UpdateConfigurationRequest(cfgPersist, <<>>)
    /\ lookups = {}
    /\ cfgWrites = EmptyBag
    /\ fired = FALSE
    /\ clock = 0
    /\ nEvents = 0
    /\ nOps = 0
    /\ failed = FALSE
    /\ accepted = {}
    /\ last = OtherStep

\* line 39: the event is considered only when capture is on, it carries
\* query info and it is a 'queryStop'
PassesFilterNoCaptureCheck(type, info) == info /\ type = "queryStop"
PassesFilter(type, info) == captureEnabled /\ info /\ type = "queryStop"

\* lines 43-48: the event's document must be among the open text documents
DocumentFoundAlways(doc) == TRUE
DocumentFound(doc) == doc \in OpenDocuments

\* line 54: unshift puts the new item at the front
UnshiftAtBack(list, item) == Append(list, item)
Unshift(list, item) == <<item>> \o list

\* lines 55-56, 70-71, 76-77: await this.storeHistory() and then the fire:
\* a rejected write rejects the operation before the fire
AfterStoreSwallowed(ok) == [fire |-> TRUE, outcome |-> "resolved"]
AfterStore(ok) ==
    IF ok THEN [fire |-> TRUE, outcome |-> "resolved"]
    ELSE [fire |-> FALSE, outcome |-> "rejected"]

\* A mutation followed by await storeHistory() and the fire: with persistence
\* off there is nothing to wait for and the fire follows at once.
MutateAndStore(list, owner) ==
    /\ items' = list
    /\ reqs' = reqs (+) StoreHistory(persistHistory, list, owner)
    /\ fired' = ~persistHistory

\* onQueryEvent up to its await of getConnection.  The query text, the
\* connection profile and the success flag of the item are taken from the
\* event and the lookup as they are; the item is known here by the arrival
\* number of its event.
OnQueryEvent(type, info, doc) ==
    /\ IF PassesFilter(type, info) /\ DocumentFound(doc)
       THEN /\ nOps < MaxOps
            /\ nEvents' = nEvents + 1
            /\ nOps' = nOps + 1
            /\ lookups' = lookups \cup {nEvents + 1}
            /\ accepted' = IF type = "queryStop" /\ info /\ captureEnabled
                           THEN accepted \cup {nEvents + 1} ELSE accepted
       ELSE UNCHANGED <<nEvents, nOps, lookups, accepted>>
    /\ last' = Step("event", IF doc \in OpenDocuments THEN "found" ELSE "missing",
                    type = "queryStop" /\ info /\ captureEnabled)
    /\ fired' = FALSE
    /\ UNCHANGED <<items, captureEnabled, persistHistory, cfgCapture, cfgPersist, stored,
                   getReq, reqs, cfgWrites, clock, failed, stored0>>
    /\ UNCHANGED <<dacVars, recVars>>

\* onQueryEvent from the answer of getConnection to its await of storeHistory
LookupDone(n) ==
    /\ n \in lookups
    /\ lookups' = lookups \ {n}
    /\ clock' = clock + 1
    /\ MutateAndStore(Unshift(items, NewItem(n, clock')), "capture")
    /\ last' = Step("lookupDone", "capture", TRUE)
    /\ UNCHANGED <<captureEnabled, persistHistory, cfgCapture, cfgPersist, stored, getReq,
                   cfgWrites, nEvents, nOps, failed, accepted, stored0>>
    /\ UNCHANGED <<dacVars, recVars>>

\* clearAll up to its await
ClearAll ==
    /\ nOps < MaxOps
    /\ nOps' = nOps + 1
    /\ MutateAndStore(<<>>, "clearAll")
    /\ last' = OtherStep
    /\ UNCHANGED <<captureEnabled, persistHistory, cfgCapture, cfgPersist, stored, getReq,
                   lookups, cfgWrites, clock, nEvents, failed, accepted, stored0>>
    /\ UNCHANGED <<dacVars, recVars>>

\* the items a tree view may still hold: those of the list, or one no longer in it
StaleItem == NewItem(0, 0)
Filter(list, item) == SelectSeq(list, LAMBDA n : n # item)

\* deleteItem up to its await
DeleteItem(item) ==
    /\ nOps < MaxOps
    /\ nOps' = nOps + 1
    /\ MutateAndStore(Filter(items, item), "deleteItem")
    /\ last' = OtherStep
    /\ UNCHANGED <<captureEnabled, persistHistory, cfgCapture, cfgPersist, stored, getReq,
                   lookups, cfgWrites, clock, nEvents, failed, accepted, stored0>>
    /\ UNCHANGED <<dacVars, recVars>>

\* setCaptureEnabled: the field is set and the configuration update is sent
SetCaptureEnabled(enabled) ==
    /\ nOps < MaxOps
    /\ nOps' = nOps + 1
    /\ captureEnabled' = enabled
    /\ cfgWrites' = cfgWrites (+) SetToBag({enabled})
    /\ last' = OtherStep
    /\ fired' = FALSE
    /\ UNCHANGED <<items, persistHistory, cfgCapture, cfgPersist, stored, getReq, reqs,
                   lookups, clock, nEvents, failed, accepted, stored0>>
    /\ UNCHANGED <<dacVars, recVars>>

\* onDidChangeConfiguration with a change of the queryHistory section:
\* updateConfigurationValues up to its await
ConfigurationChanged(capture, persist) ==
    /\ cfgCapture' = capture
    /\ cfgPersist' = persist
    /\ captureEnabled' = capture
    /\ persistHistory' = persist
    /\ reqs' = reqs (+) UpdateConfigurationRequest(persist, items)
    /\ last' = OtherStep
    /\ fired' = FALSE
    /\ UNCHANGED <<items, stored, getReq, lookups, clock, nEvents, failed,
                   accepted, stored0>>
    /\ UNCHANGED <<dacVars, recVars>>

\* the host applies an update sent by setCaptureEnabled; the change event is
\* raised when the value changes
ApplyConfigurationWrite(enabled) ==
    /\ BagIn(enabled, cfgWrites)
    /\ cfgWrites' = cfgWrites (-) SetToBag({enabled})
    /\ IF enabled # cfgCapture
       THEN ConfigurationChanged(enabled, cfgPersist)
       ELSE /\ last' = OtherStep
            /\ fired' = FALSE
            /\ UNCHANGED <<items, captureEnabled, persistHistory, cfgCapture, cfgPersist,
                           stored, getReq, reqs, lookups, clock, nEvents, failed,
                           accepted, stored0>>
            /\ UNCHANGED <<dacVars, recVars>>
    /\ UNCHANGED nOps

\* the user edits the settings of the queryHistory section
ConfigurationEdited(capture, persist) ==
    /\ nOps < MaxOps
    /\ nOps' = nOps + 1
    /\ <<capture, persist>> # <<cfgCapture, cfgPersist>>
    /\ ConfigurationChanged(capture, persist)
    /\ UNCHANGED cfgWrites

\* line 62: a change that does not affect the queryHistory section is ignored
OtherConfigurationChanged ==
    /\ last' = OtherStep
    /\ fired' = FALSE
    /\ UNCHANGED <<items, captureEnabled, persistHistory, cfgCapture, cfgPersist, stored,
                   getReq, reqs, lookups, cfgWrites, clock, nEvents, nOps, failed,
                   accepted, stored0>>
    /\ UNCHANGED <<dacVars, recVars>>

\* the operations whose await of storeHistory is followed by the fire
Operations == {"capture", "clearAll", "deleteItem"}

\* The answer of secrets.store or secrets.delete, served or failed by the
\* storage, resumes the operation awaiting it.
WriteAnswered(r, ok) ==
    /\ reqs' = reqs (-) SetToBag({r})
    /\ IF r.owner \in Operations
       THEN /\ fired' = AfterStore(ok).fire
            /\ last' = Step(AfterStore(ok).outcome, r.owner, ok)
       ELSE /\ fired' = FALSE
            /\ last' = OtherStep
    /\ UNCHANGED <<items, captureEnabled, persistHistory, cfgCapture, cfgPersist, getReq,
                   lookups, cfgWrites, clock, nEvents, nOps, accepted, stored0>>
    /\ UNCHANGED <<dacVars, recVars>>

\* the secret storage serves a pending write
StorageServe(r) ==
    /\ BagIn(r, reqs)
    /\ stored' = IF r.kind = "store" THEN r.val ELSE NoValue
    /\ WriteAnswered(r, TRUE)
    /\ UNCHANGED failed

\* the secret storage fails a pending write
StorageFail(r) ==
    /\ BagIn(r, reqs)
    /\ failed' = TRUE
    /\ WriteAnswered(r, FALSE)
    /\ UNCHANGED stored

\* the secret storage serves, or fails, the constructor's secrets.get
GetServe(ok) ==
    /\ getReq.phase = "sent"
    /\ failed' = (failed \/ ~ok)
    /\ getReq' = [phase |-> "served", ok |-> ok, res |-> IF ok THEN stored ELSE NoValue]
    /\ last' = OtherStep
    /\ fired' = FALSE
    /\ UNCHANGED <<items, captureEnabled, persistHistory, cfgCapture, cfgPersist, stored,
                   reqs, lookups, cfgWrites, clock, nEvents, nOps, accepted, stored0>>
    /\ UNCHANGED <<dacVars, recVars>>

\* lines 31-36: the answer of secrets.get reaches its then-callback
GetAnswered ==
    /\ getReq.phase = "served"
    /\ getReq' = [phase |-> "answered", ok |-> getReq.ok, res |-> NoValue]
    /\ IF getReq.ok /\ Truthy(getReq.res)
       THEN items' = Parse(getReq.res.list) /\ fired' = TRUE
       ELSE items' = items /\ fired' = FALSE
    /\ last' = OtherStep
    /\ UNCHANGED <<captureEnabled, persistHistory, cfgCapture, cfgPersist, stored, reqs,
                   lookups, cfgWrites, clock, nEvents, nOps, failed, accepted, stored0>>
    /\ UNCHANGED <<dacVars, recVars>>

Next ==
    \/ \E type \in EventTypes, info \in BOOLEAN, doc \in EventDocuments :
          OnQueryEvent(type, info, doc)
    \/ \E n \in lookups : LookupDone(n)
    \/ ClearAll
    \/ \E i \in 1..Len(items) : DeleteItem(items[i])
    \/ DeleteItem(StaleItem)
    \/ \E enabled \in BOOLEAN : SetCaptureEnabled(enabled)
    \/ \E enabled \in BOOLEAN : ApplyConfigurationWrite(enabled)
    \/ \E capture \in BOOLEAN, persist \in BOOLEAN : ConfigurationEdited(capture, persist)
    \/ OtherConfigurationChanged
    \/ \E r \in BagToSet(reqs) : StorageServe(r)
    \/ \E r \in BagToSet(reqs) : StorageFail(r)
    \/ \E ok \in BOOLEAN : GetServe(ok)
    \/ GetAnswered

\* nothing of the provider is in progress
Quiescent ==
    /\ getReq.phase = "answered"
    /\ reqs = EmptyBag
    /\ lookups = {}
    /\ cfgWrites = EmptyBag

(***************************************************************************)
(*                           DacFxTestService                              *)
(***************************************************************************)

deployOperationId == "deploy dacpac"
extractOperationId == "extract dacpac"
exportOperationId == "export bacpac"
importOperationId == "import bacpac"
generateScript == "generate script"
generateDeployPlan == "generate deploy plan"
validateStreamingJob == "validate streaming job"

Methods == {"exportBacpac", "importBacpac", "extractDacpac", "createProjectFromDatabase",
            "deployDacpac", "generateDeployScript", "generateDeployPlan",
            "getOptionsFromProfile", "validateStreamingJob"}

\* the arguments of a call: every method ignores them
CallArguments == {"db1", "db2"}

\* the methods that write this.dacfxResult.operationId
AssignsSharedNotValidate(method) ==
    method \notin {"getOptionsFromProfile", "validateStreamingJob"}
AssignsShared(method) == method # "getOptionsFromProfile"

\* the constant a method writes to this.dacfxResult.operationId
AssignedOperationIdDistinct(method) ==
    CASE method = "exportBacpac" -> exportOperationId
      [] method = "importBacpac" -> importOperationId
      [] method = "extractDacpac" -> extractOperationId
      [] method = "createProjectFromDatabase" -> extractOperationId
      [] method = "deployDacpac" -> deployOperationId
      [] method = "generateDeployScript" -> generateScript
      [] method = "generateDeployPlan" -> generateDeployPlan
      [] method = "validateStreamingJob" -> validateStreamingJob
      [] OTHER -> "test"
AssignedOperationId(method) ==
    CASE method = "exportBacpac" -> exportOperationId
      [] method = "importBacpac" -> importOperationId
      [] method = "extractDacpac" -> extractOperationId
      [] method = "createProjectFromDatabase" -> importOperationId
      [] method = "deployDacpac" -> deployOperationId
      [] method = "generateDeployScript" -> generateScript
      [] method = "generateDeployPlan" -> generateDeployPlan
      [] method = "validateStreamingJob" -> validateStreamingJob
      [] OTHER -> "test"

\* the methods that resolve with this.dacfxResult itself
ReturnsShared(method) ==
    method \notin {"generateDeployPlan", "getOptionsFromProfile", "validateStreamingJob"}

\* the record a method builds for its own answer
OwnResult(method) ==
    CASE method = "generateDeployPlan" ->
           [operationId |-> generateDeployPlan, success |-> TRUE, errorMessage |-> "",
            report |-> generateDeployPlan]
      [] method = "getOptionsFromProfile" ->
           [success |-> TRUE, errorMessage |-> "", deploymentOptions |-> "sample options"]
      [] OTHER -> [success |-> TRUE, errorMessage |-> ""]

\* the field initialiser of dacfxResult
DacInit ==
    /\ dacfxResult = [success |-> TRUE, operationId |-> "test", errorMessage |-> ""]
    /\ returned = <<>>

\* One call.  A returned result is a reference: to the stub's dacfxResult, or
\* to a record of its own; value is the record as it was when the call returned.
Call(method, arg) ==
    /\ Len(returned) < MaxCalls
    /\ dacfxResult' = IF AssignsShared(method)
                      THEN [dacfxResult EXCEPT !.operationId = AssignedOperationId(method)]
                      ELSE dacfxResult
    /\ returned' = Append(returned,
                          [method |-> method, arg |-> arg,
                           ref |-> IF ReturnsShared(method) THEN "dacfxResult" ELSE "own",
                           value |-> IF ReturnsShared(method) THEN dacfxResult'
                                     ELSE OwnResult(method)])
    /\ UNCHANGED <<qhVars, recVars>>

\* the record a returned result refers to now
Deref(r) == IF r.ref = "dacfxResult" THEN dacfxResult ELSE r.value

NextDacFx == \E method \in Methods, arg \in CallArguments : Call(method, arg)

(***************************************************************************)
(*                         StaticRecommendations                           *)
(***************************************************************************)

ExtensionIds == {"ext.a", "ext.b", "ext.c"}

RECURSIVE SeqsUpTo(_)
SeqsUpTo(n) ==
    IF n = 0 THEN {<<>>}
    ELSE LET shorter == SeqsUpTo(n - 1)
         IN  shorter \cup {Append(l, x) : l \in {m \in shorter : Len(m) = n - 1}, x \in ExtensionIds}

Recommendation(r) ==
    [extensionId |-> r,
     reason |-> [reasonId |-> "Application",
                 reasonText |-> "This extension is recommended by Azure Data Studio."],
     source |-> "application"]

\* line 22: one record per entry of the product's list
MapRecommendationsDistinct(list) ==
    LET firsts == SelectSeq([i \in 1..Len(list) |-> i],
                            LAMBDA i : \A j \in 1..(i - 1) : list[j] # list[i])
    IN  [k \in 1..Len(firsts) |-> Recommendation(list[firsts[k]])]
MapRecommendations(list) == [i \in 1..Len(list) |-> Recommendation(list[i])]

\* line 14: the field initialiser, before the constructor's body
RecInit ==
    /\ recommendedExtensions \in SeqsUpTo(MaxRecommended)
    /\ recommendations = <<>>
    /\ recPc = "fields"
    /\ activated = FALSE
    /\ lastRead = [read |-> FALSE, list |-> <<>>]

Construct ==
    /\ recPc = "fields"
    /\ recPc' = "constructed"
    /\ recommendations' = MapRecommendations(recommendedExtensions)
    /\ UNCHANGED <<recommendedExtensions, activated, lastRead>>
    /\ UNCHANGED <<qhVars, dacVars>>

DoActivate ==
    /\ recPc = "constructed"
    /\ activated' = TRUE
    /\ UNCHANGED <<recommendedExtensions, recommendations, recPc, lastRead>>
    /\ UNCHANGED <<qhVars, dacVars>>

\* the recommendations getter
ReadRecommendations ==
    /\ recPc = "constructed"
    /\ lastRead' = [read |-> TRUE, list |-> recommendations]
    /\ UNCHANGED <<recommendedExtensions, recommendations, recPc, activated>>
    /\ UNCHANGED <<qhVars, dacVars>>

NextRec == Construct \/ DoActivate \/ ReadRecommendations

(***************************************************************************)
(*                            Specifications                               *)
(***************************************************************************)

\* a provider with nothing stored and the default settings
QHIdle ==
    /\ QHInit
    /\ stored0 = NoValue
    /\ cfgCapture
    /\ cfgPersist

\* a product without recommended extensions
RecIdle ==
    /\ RecInit
    /\ recommendedExtensions = <<>>

Init == QHInit /\ DacInit /\ RecIdle
Spec == Init /\ [][Next]_vars

InitDacFx == DacInit /\ QHIdle /\ RecIdle
SpecDacFx == InitDacFx /\ [][NextDacFx]_vars

InitRec == RecInit /\ QHIdle /\ DacInit
SpecRec == InitRec /\ [][NextRec]_vars

(***************************************************************************)
(*                     Properties: QueryHistoryProvider                    *)
(***************************************************************************)

\* C1: while persistence is enabled and nothing of the provider is in
\* progress (and no storage request has failed), the secret stored under the
\* history key is the serialization of the in-memory list.
C1_PersistedMatchesMemory ==
    (Quiescent /\ persistHistory /\ ~failed) => stored = Value(Stringify(items))

\* the items captured in this session, by position
SessionPositions(list) == {i \in 1..Len(list) : list[i].q > 0}

\* C2, as claimed: of two captured events, the item of the one that arrived
\* later is nearer the front of the list.
C2_ArrivalOrder ==
    \A i, j \in SessionPositions(items) : i < j => items[i].q > items[j].q

\* C2, amended: the list is ordered by the items' timestamps, newest first;
\* a capture takes its timestamp, and its place at the front, when its
\* connection lookup completes.
C2_TimestampOrder ==
    \A i, j \in 1..Len(items) : i < j => items[i].ts >= items[j].ts

\* C2: two captured events are in the list, the one that arrived first in front.
C2_Overtaken ==
    \E i, j \in SessionPositions(items) : i < j /\ items[i].q < items[j].q

\* C3: started with persistence enabled and a non-empty list stored, once the
\* constructor's requests have completed and nothing else has run, the
\* in-memory list is the stored list and the storage still holds it.
C3_StartupRestoresHistory ==
    (/\ Quiescent
     /\ nOps = 0
     /\ ~failed
     /\ persistHistory
     /\ stored0.has
     /\ stored0.list # <<>>)
    => (items = Parse(stored0.list) /\ stored = stored0)

\* C4: when the storage write of a capture, clearAll or deleteItem fails, the
\* operation is rejected, the tree-change event is not fired, no request is
\* sent again and neither the list nor the secret changes.
C4_FailurePropagates ==
    [][(last'.op \in {"resolved", "rejected"} /\ ~last'.ok)
        => /\ last'.op = "rejected"
           /\ last'.owner \in Operations
           /\ ~fired'
           /\ BagCardinality(reqs') = BagCardinality(reqs) - 1
           /\ \A r \in BagToSet(reqs') : CopiesIn(r, reqs') <= CopiesIn(r, reqs)
           /\ UNCHANGED <<items, stored, getReq, lookups, cfgWrites>>]_vars

\* C4: the storage write of an operation has failed.
C4_WriteFailed ==
    last.op = "rejected" /\ last.owner \in Operations /\ ~last.ok /\ failed

\* C5: a query event whose document is not open changes neither the list,
\* the secret nor the flags, sends no request and fires no tree-change event.
C5_MissingDocumentSkipped ==
    [][(last'.op = "event" /\ last'.owner = "missing")
        => /\ UNCHANGED <<items, stored, captureEnabled, persistHistory, getReq, reqs,
                          lookups, cfgWrites, cfgCapture, cfgPersist>>
           /\ ~fired']_vars

\* C5: a 'queryStop' event with query info arrived while capture was enabled,
\* and its document was not open.
C5_MissingDocumentEvent ==
    last.op = "event" /\ last.owner = "missing" /\ last.ok

\* C9, as claimed: while capture stays disabled the list gains no captured item.
C9_NoGrowthWhileDisabled ==
    [][(~captureEnabled /\ ~captureEnabled')
        => Cardinality(SessionPositions(items')) <= Cardinality(SessionPositions(items))]_vars

\* C9, amended: every captured item of the list, and every capture waiting
\* for its lookup, stems from a 'queryStop' event with query info that was
\* received while capture was enabled.
C9_OnlyAcceptedEvents ==
    /\ \A i \in SessionPositions(items) : items[i].q \in accepted
    /\ lookups \subseteq accepted

\* C9: a capture has just added its item although capture is disabled.
C9_AddedWhileDisabled ==
    last.op = "lookupDone" /\ ~captureEnabled /\ SessionPositions(items) # {}

\* C10: with persistence off and nothing of the provider in progress (and no
\* storage request failed), nothing is stored under the history key.
C10_SecretStaysOut ==
    (Quiescent /\ ~persistHistory /\ ~failed) => stored = NoValue

(***************************************************************************)
(*                       Properties: DacFxTestService                      *)
(***************************************************************************)

\* the operation id each method is said to answer with
ClaimedOperationId(method) ==
    CASE method = "exportBacpac" -> "export bacpac"
      [] method = "importBacpac" -> "import bacpac"
      [] method = "extractDacpac" -> "extract dacpac"
      [] method = "createProjectFromDatabase" -> "import bacpac"
      [] method = "deployDacpac" -> "deploy dacpac"
      [] method = "generateDeployScript" -> "generate script"
      [] method = "generateDeployPlan" -> "generate deploy plan"
      [] method = "validateStreamingJob" -> "validate streaming job"
      [] OTHER -> "none"

MethodsWithOperationId == Methods \ {"getOptionsFromProfile", "validateStreamingJob"}

\* C6: every call answers success with an empty error message, and the
\* operationId of its answer, when the call returns, is the method's constant.
C6_StubReturnsConstant ==
    \A i \in 1..Len(returned) :
        /\ returned[i].value.success = TRUE
        /\ returned[i].value.errorMessage = ""
        /\ returned[i].method \in MethodsWithOperationId
             => returned[i].value.operationId = ClaimedOperationId(returned[i].method)

\* C6: createProjectFromDatabase and generateDeployPlan have been called,
\* with different arguments.
C6_CallsMade ==
    \E i, j \in 1..Len(returned) :
        /\ returned[i].method = "createProjectFromDatabase"
        /\ returned[j].method = "generateDeployPlan"
        /\ returned[i].arg # returned[j].arg

\* C7, as claimed: a returned result is, after any later call, as it was
\* when its call returned.
C7_ResultNotAltered ==
    \A i \in 1..Len(returned) : Deref(returned[i]) = returned[i].value

\* the calls made so far that write the shared record, by position
WritingCalls == {i \in 1..Len(returned) : returned[i].method # "getOptionsFromProfile"}

\* C7, amended: success and errorMessage of a returned result never change
\* and a record built by its own call is not altered, but the results of the
\* methods that answer with the shared dacfxResult are one object: its
\* operationId is the constant of the latest call other than
\* getOptionsFromProfile.
C7_SharedRecordOverwritten ==
    \A i \in 1..Len(returned) :
        /\ Deref(returned[i]).success = returned[i].value.success
        /\ Deref(returned[i]).errorMessage = returned[i].value.errorMessage
        /\ returned[i].ref = "own" => Deref(returned[i]) = returned[i].value
        /\ returned[i].ref = "dacfxResult" =>
             \E k \in WritingCalls :
                 /\ \A m \in WritingCalls : m <= k
                 /\ Deref(returned[i]).operationId = ClaimedOperationId(returned[k].method)

\* C7: a result of the shared record was returned, and the latest call was
\* validateStreamingJob.
C7_OverwrittenByValidate ==
    /\ Len(returned) >= 2
    /\ returned[1].ref = "dacfxResult"
    /\ returned[Len(returned)].method = "validateStreamingJob"
    /\ dacfxResult.operationId # returned[1].value.operationId

(***************************************************************************)
(*                     Properties: StaticRecommendations                   *)
(***************************************************************************)

\* C8: once constructed, the list holds one record per entry of the
\* product's list, in its order and with its repetitions, each with reason
\* Application and source 'application'; doActivate and reads leave it so,
\* and a read returns it.
C8_RecommendationsMatchProduct ==
    recPc = "constructed" =>
        /\ Len(recommendations) = Len(recommendedExtensions)
        /\ \A i \in 1..Len(recommendedExtensions) :
              /\ recommendations[i].extensionId = recommendedExtensions[i]
              /\ recommendations[i].reason.reasonId = "Application"
              /\ recommendations[i].source = "application"
        /\ lastRead.read => lastRead.list = recommendations

\* C8: a product list with a repeated identifier has been mapped, activated
\* and read.
C8_RepeatedEntryRead ==
    /\ recPc = "constructed"
    /\ activated
    /\ lastRead.read
    /\ \E i, j \in 1..Len(recommendedExtensions) :
          i < j /\ recommendedExtensions[i] = recommendedExtensions[j]

=============================================================================
